---- MODULE Spec2Model ----
(***************************************************************************)
(* picosdk-malloc: Heap<T> (a malloc/free-managed box), HeapRef<T> /       *)
(* HeapRefWeak<T> (reference-counted handles over two Heap allocations)    *)
(* and the trace module's ALLOCATED_BYTES counter.                         *)
(*                                                                         *)
(* Memory is a finite set of addresses.  malloc returns any address that   *)
(* is not live, or null.  A value of type T is a payload plus an optional  *)
(* HeapRefWeak the value owns (T is generic and Heap::drop runs T's        *)
(* destructor through drop_in_place, so a T may drop a weak handle).       *)
(***************************************************************************)
EXTENDS Integers, FiniteSets, Sequences, Bags, TLC

\* ----------------------------------------------------------------- bounds
\* MaxAddr: the addresses malloc can hand out.  MaxCount: clone, downgrade and
\* upgrade are taken only while the count they raise is below it.  UsizeBits:
\* the width of usize in the model (the counter wraps modulo 2^UsizeBits).
\* ArrayLen: LEN of the arrays Heap<[T; LEN]> is built for.  MaxOps: the
\* operations each core starts when two cores count without synchronisation.
MaxAddr == 2
MaxCount == 2
UsizeBits == 8
ArrayLen == 3
MaxOps == 2

\* -------------------------------------------------------------- constants
SizeT == 9
OVERHEAD == 8
Null == 0
\* The array element of the tests: one byte, T::default() is 0x07.
ElemSize == 1
DefaultElem == 7

Addr == 1..MaxAddr
\* The payloads of T: the code never inspects them, two distinct ones show
\* whether a value is handed over unchanged.
Data == {"Testolope", "TESTOLOPE"}
NoData == ""
UsizeMod == 2^UsizeBits

\* A HeapRef / HeapRefWeak: the two raw pointers.
Handle == [value : Addr, refctr : Addr]
NoHandle == [value |-> Null, refctr |-> Null]

\* A value of type T (payload, the weak handle it owns or NoHandle).
Value(d) == [data |-> d, held |-> NoHandle]
NoValue == [data |-> NoData, held |-> NoHandle]

\* A Heap<ty>: ty is "T", "uninit" (Heap<MaybeUninit<T>>) or "array"
\* (Heap<[T; LEN]>).
Heap(p, ty) == [memory |-> p, ty |-> ty]

\* ------------------------------------------------------------ memory cells
EmptyCell ==
    [live |-> FALSE, size |-> 0, tag |-> "none", strong |-> 0, weak |-> 0,
     data |-> NoData, held |-> NoHandle, elems |-> <<>>]
UninitCell ==
    [live |-> TRUE, size |-> SizeT, tag |-> "uninit", strong |-> 0, weak |-> 0,
     data |-> NoData, held |-> NoHandle, elems |-> <<>>]
ValCell(v) ==
    [live |-> TRUE, size |-> SizeT, tag |-> "val", strong |-> 0, weak |-> 0,
     data |-> v.data, held |-> v.held, elems |-> <<>>]
RefCounter(s, w) ==
    [live |-> TRUE, size |-> OVERHEAD, tag |-> "refctr", strong |-> s, weak |-> w,
     data |-> NoData, held |-> NoHandle, elems |-> <<>>]
\* The memory of a Heap<[T; LEN]>; an element that was never written is 0.
ArrayCell(elems) ==
    [live |-> TRUE, size |-> ArrayLen * ElemSize, tag |-> "array", strong |-> 0,
     weak |-> 0, data |-> NoData, held |-> NoHandle, elems |-> elems]
UninitElems == [i \in 1..ArrayLen |-> 0]

SizeOf(ty) ==
    CASE ty = "refctr" -> OVERHEAD
      [] ty = "array" -> ArrayLen * ElemSize
      [] OTHER -> SizeT

\* The two cores of the RP2040, and a core that is not inside an operation.
\* pc is the next step of the operation op on handle h, reg the value the
\* core loaded from the counter, ops the operations the core has started.
Cores == {0, 1}
Idle(n) == [pc |-> "idle", op |-> "none", h |-> NoHandle, reg |-> 0, ops |-> n]

\* A generator closure handed to Heap::new_from_fn: an iterator over src and
\* the number of values taken from it.
Generator(src) == [src |-> src, calls |-> 0]
\* The iterators the caller builds generators from (the code never looks at
\* the elements; distinct ones show where each call's value is stored).
Sources == {[i \in 1..ArrayLen |-> base + i] : base \in {83, 100}}
\* T::default as a generator.
DefaultSource == [i \in 1..ArrayLen |-> DefaultElem]

VARIABLES
    mem,      \* Addr -> cell: the allocator's memory
    tracer,   \* trace::ALLOCATED_BYTES
    corrupt,  \* free() was called on memory that is not live
    refs,     \* bag of live HeapRef handles held by the caller
    weaks,    \* bag of live HeapRefWeak handles held by the caller
    boxes,    \* bag of live Heap boxes held by the caller
    raws,     \* bag of pointers released by Heap::into_raw
    vals,     \* bag of T values outside the heap that own a weak handle
    ret,      \* the last operation and what it returned
    gen,      \* the generator of the last array constructor, as it was left
    ctx       \* per core: the counter update it is in the middle of

vars == <<mem, tracer, corrupt, refs, weaks, boxes, raws, vals, ret, gen, ctx>>

\* ------------------------------------------------------- state threading
\* The part of the state the allocation paths change, passed through the
\* nested calls of one operation.
Cur == [mem |-> mem, tracer |-> tracer, corrupt |-> corrupt]
Commit(s) == mem' = s.mem /\ tracer' = s.tracer /\ corrupt' = s.corrupt

Ret(op, res, h, v) == [op |-> op, res |-> res, h |-> h, val |-> v]

Add(bag, e) == bag (+) SetToBag({e})
Remove(bag, e) == bag (-) SetToBag({e})

\* ------------------------------------------------------------- allocator
malloc(m) == {Null} \cup {a \in Addr : ~m[a].live}

free(s, p) ==
    IF s.mem[p].live
    THEN [s EXCEPT !.mem[p] = EmptyCell]
    ELSE [s EXCEPT !.corrupt = TRUE]

\* ---------------------------------------------------------------- tracer
increment_allocated(t, bytes) == (t + bytes) % UsizeMod
decrement_allocated(t, bytes) == (t - bytes) % UsizeMod

\* ------------------------------------------------------------------ Heap
\* Mutant: the allocation is not reported to the tracer.
HeapAlloc_Untraced(s, p, cell) ==
    [s EXCEPT !.mem[p] = cell]

\* Heap::new_uninit with malloc returning p # Null, then write / assume_init
\* when the cell is initialised.
HeapAlloc(s, p, cell) ==
    [s EXCEPT !.mem[p] = cell,
              !.tracer = increment_allocated(@, cell.size)]

RECURSIVE HeapDrop(_, _, _)

\* Mutant: the record is freed as soon as weak is 0, whatever strong is.
HeapRefWeakDrop_IgnoreStrong(s, h) ==
    LET s1 == [s EXCEPT !.mem[h.refctr].weak = @ - 1]
    IN  IF s1.mem[h.refctr].weak = 0
        THEN HeapDrop(s1, h.refctr, "refctr")
        ELSE s1

\* Mutant: the last weak handle never frees the record.
HeapRefWeakDrop_Leak(s, h) ==
    [s EXCEPT !.mem[h.refctr].weak = @ - 1]

\* Mutant: the handle gives up a strong count instead of a weak one.
HeapRefWeakDrop_WrongCount(s, h) ==
    LET s1 == [s EXCEPT !.mem[h.refctr].strong = @ - 1]
    IN  IF s1.mem[h.refctr].strong = 0 /\ s1.mem[h.refctr].weak = 0
        THEN HeapDrop(s1, h.refctr, "refctr")
        ELSE s1

\* HeapRefWeak::drop
HeapRefWeakDrop(s, h) ==
    LET s1 == [s EXCEPT !.mem[h.refctr].weak = @ - 1]
    IN  IF s1.mem[h.refctr].strong = 0 /\ s1.mem[h.refctr].weak = 0
        THEN HeapDrop(s1, h.refctr, "refctr")
        ELSE s1

\* Dropping a T outside the heap: its destructor drops the weak it owns.
ValueDrop(s, v) ==
    IF v.held # NoHandle THEN HeapRefWeakDrop(s, v.held) ELSE s

\* ptr::drop_in_place::<ty>: only a T has a destructor.
drop_in_place(s, p, ty) ==
    IF ty = "T"
    THEN ValueDrop(s, [data |-> s.mem[p].data, held |-> s.mem[p].held])
    ELSE s

\* impl Drop for Heap<ty>
HeapDrop(s, p, ty) ==
    LET s1 == drop_in_place(s, p, ty)
        s2 == free(s1, p)
    IN  [s2 EXCEPT !.tracer = decrement_allocated(@, SizeOf(ty))]

\* Mutant: the box is dropped after the element was read, destructor included.
HeapIntoInner_RunsDrop(s, p) == HeapDrop(s, p, "T")

\* Heap::into_inner: read the element, free, trace; no destructor runs.
HeapIntoInner(s, p) ==
    LET s1 == free(s, p)
    IN  [s1 EXCEPT !.tracer = decrement_allocated(@, SizeT)]

\* --------------------------------------------------------------- HeapRef
\* Mutant: the record is released as soon as strong is 0, whatever weak is.
LastReference_IgnoreWeak(s, h, ub) ==
    IF s.mem[h.refctr].live
    THEN s.mem[h.refctr].strong = 0
    ELSE ub

\* The condition `self.strong() == 0 && self.weak() == 0` of HeapRef::drop.
\* When the record was freed by the value's destructor the read is of freed
\* memory: either outcome (ub) can be produced.
LastReference(s, h, ub) ==
    IF s.mem[h.refctr].live
    THEN s.mem[h.refctr].strong = 0 /\ s.mem[h.refctr].weak = 0
    ELSE ub

\* Mutant: the last strong handle does not drop the value.
HeapRefDrop_KeepValue(s, h, ub) ==
    LET s1 == [s EXCEPT !.mem[h.refctr].strong = @ - 1]
    IN  IF LastReference(s1, h, ub)
        THEN HeapDrop(s1, h.refctr, "refctr")
        ELSE s1

\* impl Drop for HeapRef
HeapRefDrop(s, h, ub) ==
    LET s1 == [s EXCEPT !.mem[h.refctr].strong = @ - 1]
        s2 == IF s1.mem[h.refctr].strong = 0
              THEN HeapDrop(s1, h.value, "T")
              ELSE s1
    IN  IF LastReference(s2, h, ub)
        THEN HeapDrop(s2, h.refctr, "refctr")
        ELSE s2

\* Mutant: the record is freed without looking at weak.
UnwrapHeap_AlwaysFree(s, h) ==
    HeapDrop([s EXCEPT !.mem[h.refctr].strong = 0], h.refctr, "refctr")

\* HeapRef::try_unwrap_heap, the path after the `strong() > 1` check.
UnwrapHeap(s, h) ==
    LET s1 == [s EXCEPT !.mem[h.refctr].strong = 0]
    IN  IF s1.mem[h.refctr].weak = 0
        THEN HeapDrop(s1, h.refctr, "refctr")
        ELSE s1

\* Mutant: the comparison is off by one.
StillShared_OffByOne(m, h) == m[h.refctr].strong > 2

\* `self.strong() > 1` of HeapRef::try_unwrap_heap
StillShared(m, h) == m[h.refctr].strong > 1

\* Mutant: upgrade does not look at strong.
Orphaned_Never(m, w) == FALSE

\* Mutant: upgrade refuses while one strong handle is left.
Orphaned_OffByOne(m, w) == m[w.refctr].strong <= 1

\* `self.strong() == 0` of HeapRefWeak::upgrade
Orphaned(m, w) == m[w.refctr].strong = 0

\* No operation is modelled after a double free: the allocator's state is
\* undefined from there on.
Running == ~corrupt

\* ------------------------------------------------------------------- Init
Init ==
    /\ mem = [a \in Addr |-> EmptyCell]
    /\ tracer = 0
    /\ corrupt = FALSE
    /\ refs = EmptyBag
    /\ weaks = EmptyBag
    /\ boxes = EmptyBag
    /\ raws = EmptyBag
    /\ vals = EmptyBag
    /\ ret = Ret("init", "unit", NoHandle, NoValue)
    /\ gen = Generator(<<>>)
    /\ ctx = [c \in Cores |-> Idle(0)]

\* ----------------------------------------------------------- Heap actions
\* Heap::new_uninit
NewUninit ==
    /\ Running
    /\ \E p \in malloc(mem) :
           IF p = Null
           THEN /\ ret' = Ret("new_uninit", "none", NoHandle, NoValue)
                /\ UNCHANGED <<gen, ctx, mem, tracer, corrupt, refs, weaks, boxes, raws, vals>>
           ELSE /\ Commit(HeapAlloc(Cur, p, UninitCell))
                /\ boxes' = Add(boxes, Heap(p, "uninit"))
                /\ ret' = Ret("new_uninit", "ok", [value |-> p, refctr |-> Null], NoValue)
                /\ UNCHANGED <<gen, ctx, refs, weaks, raws, vals>>

\* MaybeUninit::write through DerefMut of a Heap<MaybeUninit<T>>
Write(b, d) ==
    /\ Running
    /\ BagIn(b, boxes) /\ b.ty = "uninit"
    /\ mem' = [mem EXCEPT ![b.memory] = ValCell(Value(d))]
    /\ ret' = Ret("write", "unit", [value |-> b.memory, refctr |-> Null], NoValue)
    /\ UNCHANGED <<gen, ctx, tracer, corrupt, refs, weaks, boxes, raws, vals>>

\* Heap::assume_init (the caller guarantees the memory was written)
AssumeInit(b) ==
    /\ Running
    /\ BagIn(b, boxes) /\ b.ty = "uninit"
    /\ mem[b.memory].tag = "val"
    /\ boxes' = Add(Remove(boxes, b), Heap(b.memory, "T"))
    /\ ret' = Ret("assume_init", "ok", [value |-> b.memory, refctr |-> Null], NoValue)
    /\ UNCHANGED <<gen, ctx, mem, tracer, corrupt, refs, weaks, raws, vals>>

\* Heap::new
HeapNew(d) ==
    /\ Running
    /\ \E p \in malloc(mem) :
           IF p = Null
           THEN /\ ret' = Ret("heap_new", "err", NoHandle, Value(d))
                /\ UNCHANGED <<gen, ctx, mem, tracer, corrupt, refs, weaks, boxes, raws, vals>>
           ELSE /\ Commit(HeapAlloc(Cur, p, ValCell(Value(d))))
                /\ boxes' = Add(boxes, Heap(p, "T"))
                /\ ret' = Ret("heap_new", "ok", [value |-> p, refctr |-> Null], NoValue)
                /\ UNCHANGED <<gen, ctx, refs, weaks, raws, vals>>

\* A T handed to the caller: it is kept while it owns a weak handle.
Keep(bag, v) == IF v.held # NoHandle THEN Add(bag, v) ELSE bag

\* Heap::into_inner
IntoInner(b) ==
    /\ Running
    /\ BagIn(b, boxes) /\ b.ty = "T"
    /\ LET v == [data |-> mem[b.memory].data, held |-> mem[b.memory].held]
       IN  /\ Commit(HeapIntoInner(Cur, b.memory))
           /\ boxes' = Remove(boxes, b)
           /\ vals' = Keep(vals, v)
           /\ ret' = Ret("into_inner", "ok", [value |-> b.memory, refctr |-> Null], v)
    /\ UNCHANGED <<gen, ctx, refs, weaks, raws>>

\* Mutant: the box is not forgotten, its drop runs when into_raw returns.
IntoRaw_Drops(b) ==
    /\ Running
    /\ BagIn(b, boxes)
    /\ Commit(HeapDrop(Cur, b.memory, b.ty))
    /\ boxes' = Remove(boxes, b)
    /\ raws' = Add(raws, b)
    /\ ret' = Ret("into_raw", "ok", [value |-> b.memory, refctr |-> Null], NoValue)
    /\ UNCHANGED <<gen, ctx, refs, weaks, vals>>

\* Heap::into_raw
IntoRaw(b) ==
    /\ Running
    /\ BagIn(b, boxes)
    /\ boxes' = Remove(boxes, b)
    /\ raws' = Add(raws, b)
    /\ ret' = Ret("into_raw", "ok", [value |-> b.memory, refctr |-> Null], NoValue)
    /\ UNCHANGED <<gen, ctx, mem, tracer, corrupt, refs, weaks, vals>>

\* Heap::from_raw on a pointer Heap::into_raw produced
FromRaw(r) ==
    /\ Running
    /\ BagIn(r, raws)
    /\ r.memory # Null
    /\ raws' = Remove(raws, r)
    /\ boxes' = Add(boxes, r)
    /\ ret' = Ret("from_raw", "ok", [value |-> r.memory, refctr |-> Null], NoValue)
    /\ UNCHANGED <<gen, ctx, mem, tracer, corrupt, refs, weaks, vals>>

\* drop(Heap<ty>)
DropHeap(b) ==
    /\ Running
    /\ BagIn(b, boxes)
    /\ Commit(HeapDrop(Cur, b.memory, b.ty))
    /\ boxes' = Remove(boxes, b)
    /\ ret' = Ret("drop_heap", "unit", [value |-> b.memory, refctr |-> Null], NoValue)
    /\ UNCHANGED <<gen, ctx, refs, weaks, raws, vals>>

\* drop(T) of a value outside the heap
DropValue(v) ==
    /\ Running
    /\ BagIn(v, vals)
    /\ Commit(ValueDrop(Cur, v))
    /\ vals' = Remove(vals, v)
    /\ ret' = Ret("drop_value", "unit", v.held, NoValue)
    /\ UNCHANGED <<gen, ctx, refs, weaks, boxes, raws>>

\* ---------------------------------------------------- Heap<[T; LEN]> actions
\* The loop `for nth in 0..LEN` of Heap::new_from_fn from index nth on: one
\* call of the generator, then the write of its value to element nth.
RECURSIVE WriteElements(_, _)
RECURSIVE WriteElements_Backwards(_, _)

\* Mutant: the values are stored from the last element down.
WriteElements_Backwards(st, nth) ==
    IF nth >= ArrayLen
    THEN st
    ELSE LET value == st.gen.src[st.gen.calls + 1]
         IN  WriteElements_Backwards(
                 [elems |-> [st.elems EXCEPT ![ArrayLen - nth] = value],
                  gen |-> [st.gen EXCEPT !.calls = @ + 1]],
                 nth + 1)

WriteElements(st, nth) ==
    IF nth >= ArrayLen
    THEN st
    ELSE LET value == st.gen.src[st.gen.calls + 1]
         IN  WriteElements([elems |-> [st.elems EXCEPT ![nth + 1] = value],
                            gen |-> [st.gen EXCEPT !.calls = @ + 1]],
                           nth + 1)

\* Mutant: the elements are generated before the memory is asked for.
FromFn_GeneratesFirst(op, src) ==
    LET st == WriteElements([elems |-> UninitElems, gen |-> Generator(src)], 0)
    IN  /\ Running
        /\ gen' = st.gen
        /\ \E p \in malloc(mem) :
               IF p = Null
               THEN /\ ret' = Ret(op, "none", NoHandle, NoValue)
                    /\ UNCHANGED <<ctx, mem, tracer, corrupt, refs, weaks, boxes, raws, vals>>
               ELSE /\ Commit(HeapAlloc(Cur, p, ArrayCell(st.elems)))
                    /\ boxes' = Add(boxes, Heap(p, "array"))
                    /\ ret' = Ret(op, "ok", [value |-> p, refctr |-> Null], NoValue)
                    /\ UNCHANGED <<ctx, refs, weaks, raws, vals>>

\* The body of Heap::new_from_fn, entered as op with a generator over src.
FromFn(op, src) ==
    /\ Running
    /\ \E p \in malloc(mem) :
           IF p = Null
           THEN /\ ret' = Ret(op, "none", NoHandle, NoValue)
                /\ gen' = Generator(src)
                /\ UNCHANGED <<ctx, mem, tracer, corrupt, refs, weaks, boxes, raws, vals>>
           ELSE LET s1 == HeapAlloc(Cur, p, ArrayCell(UninitElems))
                    st == WriteElements([elems |-> UninitElems,
                                         gen |-> Generator(src)], 0)
                IN  /\ Commit([s1 EXCEPT !.mem[p].elems = st.elems])
                    /\ gen' = st.gen
                    /\ boxes' = Add(boxes, Heap(p, "array"))
                    /\ ret' = Ret(op, "ok", [value |-> p, refctr |-> Null], NoValue)
                    /\ UNCHANGED <<ctx, refs, weaks, raws, vals>>

\* Heap::new_from_fn
NewFromFn(src) == FromFn("new_from_fn", src)

\* Heap::new_default
NewDefault == FromFn("new_default", DefaultSource)

\* -------------------------------------------------------- HeapRef actions
\* HeapRef::new_from_heap
NewFromHeap(b) ==
    /\ Running
    /\ BagIn(b, boxes) /\ b.ty = "T"
    /\ \E r \in malloc(mem) :
        IF r = Null
        THEN /\ ret' = Ret("new_from_heap", "err", [value |-> b.memory, refctr |-> Null], NoValue)
             /\ UNCHANGED <<gen, ctx, mem, tracer, corrupt, refs, weaks, boxes, raws, vals>>
        ELSE /\ Commit(HeapAlloc(Cur, r, RefCounter(1, 0)))
             /\ boxes' = Remove(boxes, b)
             /\ refs' = Add(refs, [value |-> b.memory, refctr |-> r])
             /\ ret' = Ret("new_from_heap", "ok", [value |-> b.memory, refctr |-> r], NoValue)
             /\ UNCHANGED <<gen, ctx, weaks, raws, vals>>

\* Mutant: when the record cannot be allocated the value's allocation stays.
New_LeaksValue(d) ==
    /\ Running
    /\ \E p \in malloc(mem) :
           IF p = Null
           THEN /\ ret' = Ret("new", "err", NoHandle, Value(d))
                /\ UNCHANGED <<gen, ctx, mem, tracer, corrupt, refs, weaks, boxes, raws, vals>>
           ELSE LET s1 == HeapAlloc(Cur, p, ValCell(Value(d)))
                IN  \E r \in malloc(s1.mem) :
                       IF r = Null
                       THEN /\ Commit(s1)
                            /\ ret' = Ret("new", "err", NoHandle, Value(d))
                            /\ UNCHANGED <<gen, ctx, refs, weaks, boxes, raws, vals>>
                       ELSE /\ Commit(HeapAlloc(s1, r, RefCounter(1, 0)))
                            /\ refs' = Add(refs, [value |-> p, refctr |-> r])
                            /\ ret' = Ret("new", "ok", [value |-> p, refctr |-> r], NoValue)
                            /\ UNCHANGED <<gen, ctx, weaks, boxes, raws, vals>>

\* HeapRef::new
New(d) ==
    /\ Running
    /\ \E p \in malloc(mem) :
           IF p = Null
           THEN /\ ret' = Ret("new", "err", NoHandle, Value(d))
                /\ UNCHANGED <<gen, ctx, mem, tracer, corrupt, refs, weaks, boxes, raws, vals>>
           ELSE LET s1 == HeapAlloc(Cur, p, ValCell(Value(d)))
                IN  \E r \in malloc(s1.mem) :
                       IF r = Null
                       THEN /\ Commit(HeapIntoInner(s1, p))
                            /\ ret' = Ret("new", "err", NoHandle, Value(d))
                            /\ UNCHANGED <<gen, ctx, refs, weaks, boxes, raws, vals>>
                       ELSE /\ Commit(HeapAlloc(s1, r, RefCounter(1, 0)))
                            /\ refs' = Add(refs, [value |-> p, refctr |-> r])
                            /\ ret' = Ret("new", "ok", [value |-> p, refctr |-> r], NoValue)
                            /\ UNCHANGED <<gen, ctx, weaks, boxes, raws, vals>>

\* Mutant: the clone is handed out without counting it.
Clone_NoIncrement(h) ==
    /\ Running
    /\ BagIn(h, refs)
    /\ mem[h.refctr].strong < MaxCount
    /\ refs' = Add(refs, h)
    /\ ret' = Ret("clone", "ok", h, NoValue)
    /\ UNCHANGED <<gen, ctx, mem, tracer, corrupt, weaks, boxes, raws, vals>>

\* impl Clone for HeapRef
Clone(h) ==
    /\ Running
    /\ BagIn(h, refs)
    /\ mem[h.refctr].strong < MaxCount
    /\ mem' = [mem EXCEPT ![h.refctr].strong = @ + 1]
    /\ refs' = Add(refs, h)
    /\ ret' = Ret("clone", "ok", h, NoValue)
    /\ UNCHANGED <<gen, ctx, tracer, corrupt, weaks, boxes, raws, vals>>

\* Mutant: downgrade counts the new handle as a strong one.
Downgrade_CountsStrong(h) ==
    /\ Running
    /\ BagIn(h, refs)
    /\ mem[h.refctr].weak < MaxCount
    /\ mem' = [mem EXCEPT ![h.refctr].strong = @ + 1]
    /\ weaks' = Add(weaks, h)
    /\ ret' = Ret("downgrade", "ok", h, NoValue)
    /\ UNCHANGED <<gen, ctx, tracer, corrupt, refs, boxes, raws, vals>>

\* HeapRef::downgrade
Downgrade(h) ==
    /\ Running
    /\ BagIn(h, refs)
    /\ mem[h.refctr].weak < MaxCount
    /\ mem' = [mem EXCEPT ![h.refctr].weak = @ + 1]
    /\ weaks' = Add(weaks, h)
    /\ ret' = Ret("downgrade", "ok", h, NoValue)
    /\ UNCHANGED <<gen, ctx, tracer, corrupt, refs, boxes, raws, vals>>

\* HeapRef::try_unwrap_heap
TryUnwrapHeap(h) ==
    /\ Running
    /\ BagIn(h, refs)
    /\ IF StillShared(mem, h)
       THEN /\ ret' = Ret("try_unwrap_heap", "err", h, NoValue)
            /\ UNCHANGED <<gen, ctx, mem, tracer, corrupt, refs, weaks, boxes, raws, vals>>
       ELSE /\ Commit(UnwrapHeap(Cur, h))
            /\ refs' = Remove(refs, h)
            /\ boxes' = Add(boxes, Heap(h.value, "T"))
            /\ ret' = Ret("try_unwrap_heap", "ok", h, NoValue)
            /\ UNCHANGED <<gen, ctx, weaks, raws, vals>>

\* HeapRef::try_unwrap
TryUnwrap(h) ==
    /\ Running
    /\ BagIn(h, refs)
    /\ IF StillShared(mem, h)
       THEN /\ ret' = Ret("try_unwrap", "err", h, NoValue)
            /\ UNCHANGED <<gen, ctx, mem, tracer, corrupt, refs, weaks, boxes, raws, vals>>
       ELSE LET v == [data |-> mem[h.value].data, held |-> mem[h.value].held]
            IN  /\ Commit(HeapIntoInner(UnwrapHeap(Cur, h), h.value))
                /\ refs' = Remove(refs, h)
                /\ vals' = Keep(vals, v)
                /\ ret' = Ret("try_unwrap", "ok", h, v)
                /\ UNCHANGED <<gen, ctx, weaks, boxes, raws>>

\* drop(HeapRef)
DropRef(h) ==
    /\ Running
    /\ BagIn(h, refs)
    /\ \E ub \in BOOLEAN : Commit(HeapRefDrop(Cur, h, ub))
    /\ refs' = Remove(refs, h)
    /\ ret' = Ret("drop_ref", "unit", h, NoValue)
    /\ UNCHANGED <<gen, ctx, weaks, boxes, raws, vals>>

\* The caller moves a weak handle into the shared value (T has a slot with
\* interior mutability, reached through HeapRef::inner).
StoreWeak(h, w) ==
    /\ Running
    /\ BagIn(h, refs) /\ BagIn(w, weaks)
    /\ mem[h.value].held = NoHandle
    /\ mem' = [mem EXCEPT ![h.value].held = w]
    /\ weaks' = Remove(weaks, w)
    /\ ret' = Ret("store_weak", "unit", h, NoValue)
    /\ UNCHANGED <<gen, ctx, tracer, corrupt, refs, boxes, raws, vals>>

\* ---------------------------------------------------- HeapRefWeak actions
\* HeapRefWeak::upgrade
Upgrade(w) ==
    /\ Running
    /\ BagIn(w, weaks)
    /\ IF Orphaned(mem, w)
       THEN /\ ret' = Ret("upgrade", "none", w, NoValue)
            /\ UNCHANGED <<gen, ctx, mem, tracer, corrupt, refs, weaks, boxes, raws, vals>>
       ELSE /\ mem[w.refctr].strong < MaxCount
            /\ mem' = [mem EXCEPT ![w.refctr].strong = @ + 1]
            /\ refs' = Add(refs, w)
            /\ ret' = Ret("upgrade", "ok", w, NoValue)
            /\ UNCHANGED <<gen, ctx, tracer, corrupt, weaks, boxes, raws, vals>>

\* impl Clone for HeapRefWeak
CloneWeak(w) ==
    /\ Running
    /\ BagIn(w, weaks)
    /\ mem[w.refctr].weak < MaxCount
    /\ mem' = [mem EXCEPT ![w.refctr].weak = @ + 1]
    /\ weaks' = Add(weaks, w)
    /\ ret' = Ret("clone_weak", "ok", w, NoValue)
    /\ UNCHANGED <<gen, ctx, tracer, corrupt, refs, boxes, raws, vals>>

\* drop(HeapRefWeak)
DropWeak(w) ==
    /\ Running
    /\ BagIn(w, weaks)
    /\ Commit(HeapRefWeakDrop(Cur, w))
    /\ weaks' = Remove(weaks, w)
    /\ ret' = Ret("drop_weak", "unit", w, NoValue)
    /\ UNCHANGED <<gen, ctx, refs, boxes, raws, vals>>

\* ------------------------------------------------------------------- Next
BoxSet == [memory : Addr, ty : {"T", "uninit"}]

Next ==
    \/ NewUninit
    \/ \E b \in BoxSet, d \in Data : Write(b, d)
    \/ \E b \in BoxSet : AssumeInit(b)
    \/ \E d \in Data : HeapNew(d)
    \/ \E b \in BoxSet : IntoInner(b)
    \/ \E b \in BoxSet : IntoRaw(b)
    \/ \E r \in BoxSet : FromRaw(r)
    \/ \E b \in BoxSet : DropHeap(b)
    \/ \E v \in BagToSet(vals) : DropValue(v)
    \/ \E b \in BoxSet : NewFromHeap(b)
    \/ \E d \in Data : New(d)
    \/ \E h \in Handle : Clone(h)
    \/ \E h \in Handle : Downgrade(h)
    \/ \E h \in Handle : TryUnwrapHeap(h)
    \/ \E h \in Handle : TryUnwrap(h)
    \/ \E h \in Handle : DropRef(h)
    \/ \E h \in Handle, w \in Handle : StoreWeak(h, w)
    \/ \E w \in Handle : Upgrade(w)
    \/ \E w \in Handle : CloneWeak(w)
    \/ \E w \in Handle : DropWeak(w)

Spec == Init /\ [][Next]_vars

\* The constructors of Heap and the drop of what they return, arrays included.
ArrayBoxSet == [memory : Addr, ty : {"array"}]

NextHeap ==
    \/ NewUninit
    \/ \E d \in Data : HeapNew(d)
    \/ NewDefault
    \/ \E src \in Sources : NewFromFn(src)
    \/ \E b \in BoxSet \cup ArrayBoxSet : DropHeap(b)

SpecHeap == Init /\ [][NextHeap]_vars

\* ------------------------------------------------------- reading a state
Allocated(a, tag) == mem[a].live /\ mem[a].tag = tag

\* Every live HeapRefWeak: held by the caller, owned by a T on the heap, or
\* owned by a T outside the heap.
HeldCells == {a \in Addr : Allocated(a, "val") /\ mem[a].held # NoHandle}
WeakHandles ==
    BagToSet(weaks) \cup {mem[a].held : a \in HeldCells}
                    \cup {v.held : v \in BagToSet(vals)}

RECURSIVE Copies(_, _)
Copies(S, bag) ==
    IF S = {} THEN 0
    ELSE LET e == CHOOSE x \in S : TRUE
         IN  CopiesIn(e, bag) + Copies(S \ {e}, bag)

\* The number of live HeapRef / HeapRefWeak handles that point at record r.
StrongHandles(r) == Copies({h \in BagToSet(refs) : h.refctr = r}, refs)
WeakHandleCount(r) ==
    Copies({w \in BagToSet(weaks) : w.refctr = r}, weaks)
    + Cardinality({a \in HeldCells : mem[a].held.refctr = r})
    + Copies({v \in BagToSet(vals) : v.held.refctr = r}, vals)

TryUnwrapOps == {"try_unwrap", "try_unwrap_heap"}
ValueAt(m, p) == [data |-> m[p].data, held |-> m[p].held]

\* ------------------------------------------------------------------ C1
\* C1: after any sequence of operations every live HeapRef points at a value
\* allocation and a record allocation that are both allocated, and every live
\* HeapRefWeak points at a record allocation that is allocated.
C1_NoDanglingHandle ==
    /\ \A h \in BagToSet(refs) :
          Allocated(h.value, "val") /\ Allocated(h.refctr, "refctr")
    /\ \A w \in WeakHandles : Allocated(w.refctr, "refctr")

\* A weak handle was dropped while a strong and another weak handle remain.
C1_Witness ==
    /\ ret.op = "drop_weak"
    /\ BagIn(ret.h, refs)
    /\ BagIn(ret.h, weaks)

\* ------------------------------------------------------------------ C2
\* C2: no operation raises the strong count of an allocated record from 0:
\* a record with strong = 0 that is still allocated after a step has strong = 0.
C2_NoResurrection ==
    [][\A a \in Addr :
          (Allocated(a, "refctr") /\ mem[a].strong = 0
              /\ mem'[a].live /\ mem'[a].tag = "refctr")
          => mem'[a].strong = 0]_vars

\* upgrade was tried on a record whose strong count is 0.
C2_Witness ==
    /\ ret.op = "upgrade"
    /\ ret.res = "none"
    /\ Allocated(ret.h.refctr, "refctr")
    /\ mem[ret.h.refctr].strong = 0
    /\ BagIn(ret.h, weaks)

\* ------------------------------------------------------------------ C3
\* C3: upgrade with strong = 0 returns none and changes no count; with
\* strong > 0 it returns a new HeapRef for the same value and record, adds
\* exactly 1 to strong and leaves weak unchanged.
C3_Upgrade ==
    [][ret'.op = "upgrade" =>
        LET w == ret'.h
            r == w.refctr
        IN  IF mem[r].strong = 0
            THEN /\ ret'.res = "none"
                 /\ mem' = mem /\ refs' = refs /\ weaks' = weaks
            ELSE /\ ret'.res = "ok"
                 /\ mem'[r].strong = mem[r].strong + 1
                 /\ mem'[r].weak = mem[r].weak
                 /\ \A a \in Addr \ {r} : mem'[a] = mem[a]
                 /\ refs' = Add(refs, [value |-> w.value, refctr |-> r])
                 /\ weaks' = weaks
                 /\ tracer' = tracer]_vars

\* upgrade succeeded on a record with one strong handle.
C3_Witness ==
    /\ ret.op = "upgrade"
    /\ ret.res = "ok"
    /\ mem[ret.h.refctr].strong = 2
    /\ CopiesIn(ret.h, refs) = 2
    /\ BagIn(ret.h, weaks)

\* ------------------------------------------------------------------ C4
\* C4: try_unwrap / try_unwrap_heap with strong > 1 fails, returns the same
\* handle and changes nothing; with strong = 1 the same call succeeds.
C4_TryUnwrapShared ==
    [][ret'.op \in TryUnwrapOps =>
        LET h == ret'.h
        IN  /\ mem[h.refctr].strong > 1 =>
                /\ ret'.res = "err"
                /\ BagIn(h, refs')
                /\ UNCHANGED <<gen, ctx, mem, tracer, corrupt, refs, weaks, boxes, raws, vals>>
            /\ mem[h.refctr].strong = 1 => ret'.res = "ok"]_vars

\* A try_unwrap failed on a handle that is still live, next to its clone.
C4_Witness ==
    /\ ret.op \in TryUnwrapOps
    /\ ret.res = "err"
    /\ CopiesIn(ret.h, refs) = 2
    /\ mem[ret.h.refctr].strong = 2

\* ------------------------------------------------------------------ C5
\* C5: try_unwrap / try_unwrap_heap with strong = 1 succeeds: strong becomes
\* 0, the value is handed over without being torn down (the weak handle it
\* owns is not dropped), the handle is consumed, and the record is
\* deallocated iff weak = 0; a record left with strong = 0 is deallocated only
\* by the step that drops its last weak handle.
C5_TryUnwrapSole ==
    [][/\ (ret'.op \in TryUnwrapOps /\ mem[ret'.h.refctr].strong = 1) =>
            LET h == ret'.h
                r == h.refctr
                p == h.value
            IN  /\ ret'.res = "ok"
                /\ refs' = Remove(refs, h)
                /\ weaks' = weaks
                /\ IF mem[r].weak = 0
                   THEN ~mem'[r].live
                   ELSE mem'[r] = [mem[r] EXCEPT !.strong = 0]
                /\ IF ret'.op = "try_unwrap_heap"
                   THEN /\ mem'[p] = mem[p]
                        /\ boxes' = Add(boxes, Heap(p, "T"))
                        /\ tracer' = tracer - (IF mem[r].weak = 0 THEN OVERHEAD ELSE 0)
                   ELSE /\ ret'.val = ValueAt(mem, p)
                        /\ ~mem'[p].live
                        /\ vals' = Keep(vals, ValueAt(mem, p))
                        /\ tracer' = tracer - SizeT
                                     - (IF mem[r].weak = 0 THEN OVERHEAD ELSE 0)
       /\ \A a \in Addr :
            (Allocated(a, "refctr") /\ mem[a].strong = 0 /\ ~mem'[a].live)
            => mem[a].weak = 1 /\ WeakHandleCount(a) = 1]_vars

\* A sole handle was unwrapped while a weak handle kept the record.
C5_Witness ==
    /\ ret.op \in TryUnwrapOps
    /\ ret.res = "ok"
    /\ Allocated(ret.h.refctr, "refctr")
    /\ mem[ret.h.refctr].strong = 0
    /\ mem[ret.h.refctr].weak = 1

\* ------------------------------------------------------------------ C6
Handles == BagToSet(refs) \cup WeakHandles

\* C6 (as claimed): while a record is allocated, strong > 0 iff the value
\* allocation of its family is allocated: a handle of a record with
\* strong > 0 points at an allocated value, and the step that brings strong
\* to 0 leaves the value deallocated.
C6_StrongIffValueAlive ==
    [][\A h \in Handles' :
          (mem'[h.refctr].live /\ mem'[h.refctr].tag = "refctr") =>
            /\ mem'[h.refctr].strong > 0 =>
                  (mem'[h.value].live /\ mem'[h.value].tag = "val")
            /\ (mem'[h.refctr].strong = 0 /\ Allocated(h.refctr, "refctr")
                    /\ mem[h.refctr].strong > 0)
                  => ~mem'[h.value].live]_vars

\* C6 (amended): while a record is allocated, strong > 0 implies the value
\* allocation is allocated; the step that brings strong to 0 deallocates the
\* value, except try_unwrap_heap, which leaves it allocated and untouched in
\* the Heap it returns.
C6_StrongImpliesValueAlive ==
    [][\A h \in Handles' :
          (mem'[h.refctr].live /\ mem'[h.refctr].tag = "refctr") =>
            /\ mem'[h.refctr].strong > 0 =>
                  (mem'[h.value].live /\ mem'[h.value].tag = "val")
            /\ (mem'[h.refctr].strong = 0 /\ Allocated(h.refctr, "refctr")
                    /\ mem[h.refctr].strong > 0)
                  => IF ret'.op = "try_unwrap_heap"
                     THEN /\ mem'[h.value] = mem[h.value]
                          /\ Allocated(h.value, "val")
                          /\ BagIn(Heap(h.value, "T"), boxes')
                     ELSE ~mem'[h.value].live]_vars

\* The last strong handle was dropped while a weak handle keeps the record.
C6_Witness ==
    /\ ret.op = "drop_ref"
    /\ Allocated(ret.h.refctr, "refctr")
    /\ mem[ret.h.refctr].strong = 0
    /\ ~mem[ret.h.value].live
    /\ BagIn(ret.h, weaks)

\* ------------------------------------------------------------------ C7
\* C7: the record allocation is allocated iff strong + weak > 0: an allocated
\* record has a positive count, and a record some live handle still counts on
\* is allocated.
C7_RecordIffCounted ==
    /\ \A a \in Addr :
          Allocated(a, "refctr") => mem[a].strong + mem[a].weak > 0
    /\ \A h \in Handles : Allocated(h.refctr, "refctr")

\* The drop of the last weak handle of a family without strong handles has
\* deallocated the record.
C7_Witness ==
    /\ ret.op = "drop_weak"
    /\ ~mem[ret.h.refctr].live
    /\ ~mem[ret.h.value].live
    /\ refs = EmptyBag /\ weaks = EmptyBag

\* ------------------------------------------------------------------ C8
\* C8: in an allocated record strong is the number of live HeapRef handles of
\* the family and weak the number of live HeapRefWeak handles; no count is
\* ever below 0.
C8_CountsAreHandles ==
    \A a \in Addr :
        /\ mem[a].strong >= 0 /\ mem[a].weak >= 0
        /\ Allocated(a, "refctr") =>
              /\ mem[a].strong = StrongHandles(a)
              /\ mem[a].weak = WeakHandleCount(a)

\* Two strong and two weak handles after a clone.
C8_Witness ==
    /\ ret.op = "clone"
    /\ mem[ret.h.refctr].strong = 2
    /\ mem[ret.h.refctr].weak = 2
    /\ CopiesIn(ret.h, refs) = 2

\* ------------------------------------------------------------------ C9
RECURSIVE SumSizes(_)
SumSizes(S) ==
    IF S = {} THEN 0
    ELSE LET a == CHOOSE x \in S : TRUE
         IN  mem[a].size + SumSizes(S \ {a})
LiveBytes == SumSizes({a \in Addr : mem[a].live})

\* C9: in every reachable state the tracing counter equals the sum of the
\* sizes of the allocations that have not been deallocated.
C9_TracerIsLiveBytes == tracer = LiveBytes

\* ------------------------------------------------------------------ C10
TornDown ==
    /\ refs = EmptyBag /\ weaks = EmptyBag /\ boxes = EmptyBag
    /\ raws = EmptyBag /\ vals = EmptyBag

\* C10: when every Heap, HeapRef, HeapRefWeak and raw pointer has been
\* dropped or consumed, every allocation is deallocated and the tracing
\* counter reads 0.
C10_LeakFree ==
    TornDown => (\A a \in Addr : ~mem[a].live) /\ tracer = 0

\* What holds of the counter as long as no double free has happened.
TracerUntilDoubleFree == corrupt \/ (C9_TracerIsLiveBytes /\ C10_LeakFree)

\* ----------------------------------------------------------------- C11
\* The records other than r that a step releases.
ReleasedRecords(r) ==
    {a \in Addr \ {r} : Allocated(a, "refctr") /\ ~mem'[a].live}
\* The weak handles for record r that the value at p owns.
OwnedWeaks(p, r) ==
    IF mem[p].held # NoHandle /\ mem[p].held.refctr = r THEN 1 ELSE 0

\* C11 as stated: dropping a HeapRef takes exactly 1 from strong and leaves
\* weak unchanged; the value allocation is released exactly when strong
\* reaches 0 (the tracer drops by sizeof(T)) and the record is released in the
\* same drop only if weak is 0 too.  With weak > 0 the last drop leaves the
\* record allocated with strong = 0 and weak unchanged, upgrade then returns
\* none, and the drop of the last weak handle releases the record.
C11_DropRefWeakUnchanged ==
    [][/\ ret'.op = "drop_ref" =>
            LET h == ret'.h
                r == h.refctr
                p == h.value
                last == mem[r].strong = 1
            IN  /\ mem'[r].live =>
                      /\ mem'[r].strong = mem[r].strong - 1
                      /\ mem'[r].weak = mem[r].weak
                      /\ tracer' = decrement_allocated(tracer, IF last THEN SizeT ELSE 0)
                /\ ~mem'[p].live <=> last
                /\ ~mem'[r].live => last /\ mem[r].weak = 0
                /\ (last /\ mem[r].weak > 0) =>
                      /\ mem'[r].live /\ mem'[r].tag = "refctr"
                      /\ Orphaned(mem', h)
       /\ (ret'.op = "drop_weak" /\ mem[ret'.h.refctr].strong = 0
              /\ mem[ret'.h.refctr].weak = 1)
            => ~mem'[ret'.h.refctr].live]_vars

\* C11, amended: weak changes by the weak handles the value itself owns, which
\* the teardown of the value drops; the tracer also drops by every other
\* record that teardown releases.
C11_DropRef ==
    [][/\ ret'.op = "drop_ref" =>
            LET h == ret'.h
                r == h.refctr
                p == h.value
                last == mem[r].strong = 1
                k == IF last THEN OwnedWeaks(p, r) ELSE 0
            IN  /\ mem'[r].live =>
                      /\ mem'[r].strong = mem[r].strong - 1
                      /\ mem'[r].weak = mem[r].weak - k
                      /\ tracer' = decrement_allocated(tracer,
                            IF last
                            THEN SizeT + OVERHEAD * Cardinality(ReleasedRecords(r))
                            ELSE 0)
                /\ ~mem'[p].live <=> last
                /\ ~mem'[r].live => last /\ mem[r].weak - k = 0
                /\ (last /\ mem[r].weak - k > 0) =>
                      /\ mem'[r].live /\ mem'[r].tag = "refctr"
                      /\ Orphaned(mem', h)
       /\ (ret'.op = "drop_weak" /\ mem[ret'.h.refctr].strong = 0
              /\ mem[ret'.h.refctr].weak = 1)
            => ~mem'[ret'.h.refctr].live]_vars

\* The last strong handle was dropped while a weak handle is held by the
\* caller: the value is gone, the record stays with strong = 0.
C11_Witness ==
    /\ ret.op = "drop_ref"
    /\ ~mem[ret.h.value].live
    /\ Allocated(ret.h.refctr, "refctr")
    /\ mem[ret.h.refctr].strong = 0
    /\ mem[ret.h.refctr].weak = 1
    /\ BagIn(ret.h, weaks)

\* ----------------------------------------------------------------- C12
\* C12: dropping a HeapRefWeak takes exactly 1 from weak, leaves strong as it
\* is and touches no other allocation (the value is neither torn down nor
\* released); the record is released exactly when strong = 0 and weak = 0
\* after the decrement, and only then does the tracer fall, by sizeof(record).
C12_DropWeak ==
    [][ret'.op = "drop_weak" =>
        LET w == ret'.h
            r == w.refctr
            lastRef == mem[r].strong = 0 /\ mem[r].weak - 1 = 0
        IN  /\ mem'[r].live =>
                  /\ mem'[r].weak = mem[r].weak - 1
                  /\ mem'[r].strong = mem[r].strong
            /\ ~mem'[r].live <=> lastRef
            /\ \A a \in Addr \ {r} : mem'[a] = mem[a]
            /\ tracer' = decrement_allocated(tracer, IF lastRef THEN OVERHEAD ELSE 0)
            /\ ~corrupt'
            /\ weaks' = Remove(weaks, w)
            /\ UNCHANGED <<refs, boxes, raws, vals>>]_vars

\* The last weak handle of a record with strong = 0 was dropped while the
\* value lives on in the Heap that try_unwrap_heap returned: the record is
\* released, the value is not.
C12_Witness ==
    /\ ret.op = "drop_weak"
    /\ ~mem[ret.h.refctr].live
    /\ Allocated(ret.h.value, "val")
    /\ BagIn(Heap(ret.h.value, "T"), boxes)
    /\ tracer = SizeT

\* ----------------------------------------------------------------- C13
\* C13: clone of a HeapRef adds exactly 1 to strong, downgrade and clone of a
\* HeapRefWeak add exactly 1 to weak; the other count, every other cell, the
\* set of allocations and the tracer stay as they are, and dropping the
\* handle just created gives back the memory and the tracer of before.
C13_NewHandleCounts ==
    [][ret'.op \in {"clone", "downgrade", "clone_weak"} =>
        LET h == ret'.h
            r == h.refctr
            strongKind == ret'.op = "clone"
        IN  /\ ret'.res = "ok"
            /\ mem' = [mem EXCEPT ![r].strong = @ + (IF strongKind THEN 1 ELSE 0),
                                  ![r].weak = @ + (IF strongKind THEN 0 ELSE 1)]
            /\ tracer' = tracer /\ corrupt' = corrupt
            /\ refs' = (IF strongKind THEN Add(refs, h) ELSE refs)
            /\ weaks' = (IF strongKind THEN weaks ELSE Add(weaks, h))
            /\ UNCHANGED <<boxes, raws, vals>>
            /\ IF strongKind
               THEN \A ub \in BOOLEAN : HeapRefDrop(Cur', h, ub) = Cur
               ELSE HeapRefWeakDrop(Cur', h) = Cur]_vars

\* downgrade was called on a record with two strong handles and no weak one.
C13_Witness ==
    /\ ret.op = "downgrade"
    /\ Allocated(ret.h.refctr, "refctr")
    /\ mem[ret.h.refctr].strong = 2
    /\ mem[ret.h.refctr].weak = 1
    /\ CopiesIn(ret.h, refs) = 2
    /\ CopiesIn(ret.h, weaks) = 1

\* ----------------------------------------------------------------- C14
\* C14: a successful HeapRef::new / new_from_heap leaves a record with
\* strong = 1 and weak = 0 next to the value: exactly the value and the record
\* are allocated for the handle.  new allocates both (from an empty heap the
\* tracer is sizeof(T) + sizeof(record) afterwards); new_from_heap takes the
\* allocation of the Heap it is given and adds only sizeof(record).
C14_Construct ==
    [][/\ (ret'.op \in {"new", "new_from_heap"} /\ ret'.res = "ok") =>
            LET h == ret'.h
                p == h.value
                r == h.refctr
                fresh == IF ret'.op = "new" THEN {p, r} ELSE {r}
            IN  /\ p # r
                /\ mem'[r] = RefCounter(1, 0)
                /\ mem'[p].live /\ mem'[p].tag = "val"
                /\ \A a \in fresh : ~mem[a].live
                /\ \A a \in Addr \ fresh : mem'[a] = mem[a]
                /\ {a \in Addr : mem'[a].live} = {a \in Addr : mem[a].live} \cup {p, r}
                /\ tracer' = increment_allocated(tracer,
                      IF ret'.op = "new" THEN SizeT + OVERHEAD ELSE OVERHEAD)
                /\ (ret'.op = "new" /\ \A a \in Addr : ~mem[a].live) =>
                      /\ tracer' = SizeT + OVERHEAD
                      /\ {a \in Addr : mem'[a].live} = {p, r}
                /\ ret'.op = "new_from_heap" =>
                      /\ BagIn(Heap(p, "T"), boxes)
                      /\ boxes' = Remove(boxes, Heap(p, "T"))
                /\ refs' = Add(refs, h)
                /\ ~corrupt'
       /\ \A d \in Data :
            (ret'.op = "new" /\ ret'.res = "ok" /\ New(d))
                => mem'[ret'.h.value] = ValCell(Value(d))]_vars

\* HeapRef::new succeeded on an empty heap.
C14_Witness ==
    /\ ret.op = "new"
    /\ ret.res = "ok"
    /\ mem[ret.h.refctr] = RefCounter(1, 0)
    /\ Allocated(ret.h.value, "val")
    /\ tracer = SizeT + OVERHEAD
    /\ refs = SetToBag({ret.h})

\* ----------------------------------------------------------------- C15
\* C15: when malloc returns null the constructors of Heap report it in what
\* they return: Heap::new gives back the value it was called with, new_uninit,
\* new_default and new_from_fn return none, new_from_fn without a call of the
\* generator.  Memory, the tracer and the caller's boxes are as before, and a
\* constructor that did not fail has allocated.
HeapConstructors == {"heap_new", "new_uninit", "new_default", "new_from_fn"}
C15_AllocationFailure ==
    [][/\ (ret'.op \in HeapConstructors /\ ret'.res # "ok") =>
            /\ ret'.res = (IF ret'.op = "heap_new" THEN "err" ELSE "none")
            /\ ret'.h = NoHandle
            /\ UNCHANGED <<mem, tracer, corrupt, boxes, raws, refs, weaks, vals>>
       /\ (ret'.op \in HeapConstructors /\ ret'.res = "ok") =>
            /\ ~mem[ret'.h.value].live
            /\ mem'[ret'.h.value].live
       /\ \A d \in Data :
            (ret'.op = "heap_new" /\ ret'.res = "err" /\ HeapNew(d))
                => ret'.val = Value(d)
       /\ \A src \in Sources :
            (ret'.op = "new_from_fn" /\ ret'.res = "none" /\ NewFromFn(src))
                => gen' = Generator(src)
       /\ (ret'.op = "new_default" /\ ret'.res = "none" /\ NewDefault)
            => gen' = Generator(DefaultSource)]_vars

\* new_from_fn failed while an array is allocated: the generator it was given
\* was not called and the tracer still counts the one array.
C15_Witness ==
    /\ ret.op = "new_from_fn"
    /\ ret.res = "none"
    /\ gen.src \in Sources
    /\ gen.calls = 0
    /\ \E a \in Addr : Allocated(a, "array")
    /\ tracer = ArrayLen * ElemSize

\* ----------------------------------------------------------------- C16
\* C16: Heap::new(v) stores v, and into_inner hands out the value the box
\* holds, releases the allocation once and runs no destructor (nothing the
\* value owns changes); into_inner right after new(v) returns v and leaves
\* memory and tracer as they were before new.
C16_RoundTrip ==
    [][/\ \A d \in Data :
            (ret'.op = "heap_new" /\ ret'.res = "ok" /\ HeapNew(d)) =>
                LET p == ret'.h.value
                IN  /\ ValueAt(mem', p) = Value(d)
                    /\ tracer' = increment_allocated(tracer, SizeT)
                    /\ HeapIntoInner(Cur', p) = Cur
       /\ ret'.op = "into_inner" =>
            LET p == ret'.h.value
            IN  /\ ret'.res = "ok"
                /\ ret'.val = ValueAt(mem, p)
                /\ mem[p].live /\ ~mem'[p].live
                /\ \A a \in Addr \ {p} : mem'[a] = mem[a]
                /\ tracer' = decrement_allocated(tracer, SizeT)
                /\ ~corrupt'
                /\ boxes' = Remove(boxes, Heap(p, "T"))
                /\ vals' = Keep(vals, ret'.val)
                /\ UNCHANGED <<refs, weaks, raws>>]_vars

\* into_inner emptied the heap again and returned a payload.
C16_Witness ==
    /\ ret.op = "into_inner"
    /\ ret.val.data \in Data
    /\ \A a \in Addr : ~mem[a].live
    /\ boxes = EmptyBag
    /\ tracer = 0

\* ----------------------------------------------------------------- C17
\* C17: into_raw takes the box from the caller and changes nothing else: the
\* memory (still allocated, the value still in it) and the tracer are as
\* before.  from_raw gives the box back over the same memory, again without
\* a change of memory or tracer.  The drop of a box releases its allocation,
\* which was allocated until then, and takes its size from the tracer once
\* (and sizeof(record) for a record the value's destructor releases).
C17_RawRoundTrip ==
    [][/\ ret'.op = "into_raw" =>
            LET p == ret'.h.value
            IN  /\ mem' = mem /\ tracer' = tracer /\ corrupt' = corrupt
                /\ mem'[p].live
                /\ \E b \in BagToSet(boxes) :
                      /\ b.memory = p
                      /\ boxes' = Remove(boxes, b)
                      /\ raws' = Add(raws, b)
                /\ UNCHANGED <<refs, weaks, vals>>
       /\ ret'.op = "from_raw" =>
            LET p == ret'.h.value
            IN  /\ mem' = mem /\ tracer' = tracer /\ corrupt' = corrupt
                /\ mem'[p].live
                /\ \E r \in BagToSet(raws) :
                      /\ r.memory = p
                      /\ raws' = Remove(raws, r)
                      /\ boxes' = Add(boxes, r)
                /\ UNCHANGED <<refs, weaks, vals>>
       /\ ret'.op = "drop_heap" =>
            LET p == ret'.h.value
            IN  /\ mem[p].live /\ ~mem'[p].live
                /\ ~corrupt'
                /\ tracer' = decrement_allocated(tracer,
                      mem[p].size + OVERHEAD * Cardinality(ReleasedRecords(p)))
                /\ UNCHANGED <<raws, refs, weaks, vals>>]_vars

\* from_raw gave back the only box: its value is in memory, nothing is left
\* among the raw pointers and the tracer counts the one allocation.
C17_Witness ==
    /\ ret.op = "from_raw"
    /\ BagIn(Heap(ret.h.value, "T"), boxes)
    /\ Allocated(ret.h.value, "val")
    /\ raws = EmptyBag
    /\ tracer = SizeT

\* ----------------------------------------------------------------- C18
\* What a constructor of Heap<[T; LEN]> that returned a box has done with a
\* generator over src.
ArrayBuilt(src) ==
    LET p == ret'.h.value
    IN  /\ ~mem[p].live
        /\ mem'[p] = ArrayCell(src)
        /\ mem'[p].size = ArrayLen * ElemSize
        /\ \A i \in 1..ArrayLen : mem'[p].elems[i] = src[i]
        /\ \A a \in Addr \ {p} : mem'[a] = mem[a]
        /\ tracer' = increment_allocated(tracer, ArrayLen * ElemSize)
        /\ gen' = [src |-> src, calls |-> ArrayLen]
        /\ boxes' = Add(boxes, Heap(p, "array"))

\* C18: new_default and new_from_fn make exactly one allocation, of the size
\* of the whole array, call default() / the generator exactly LEN times and
\* store the value of the i-th call in element i.
C18_ArrayConstructors ==
    [][/\ \A src \in Sources :
            (ret'.op = "new_from_fn" /\ ret'.res = "ok" /\ NewFromFn(src))
                => ArrayBuilt(src)
       /\ (ret'.op = "new_default" /\ ret'.res = "ok" /\ NewDefault)
            => ArrayBuilt(DefaultSource)]_vars

\* new_from_fn built an array next to one that new_default built: the
\* generator was called LEN times and the array holds its values in order.
C18_Witness ==
    /\ ret.op = "new_from_fn"
    /\ ret.res = "ok"
    /\ Allocated(ret.h.value, "array")
    /\ mem[ret.h.value].elems = gen.src
    /\ gen.src \in Sources
    /\ gen.calls = ArrayLen
    /\ \E a \in Addr : Allocated(a, "array") /\ mem[a].elems = DefaultSource
    /\ tracer = 2 * ArrayLen * ElemSize

\* ----------------------------------------------------------------- C19
\* The boxes, raw pointers and HeapRef families that own the allocation at a.
Owners(a) ==
    Copies({b \in BagToSet(boxes) : b.memory = a}, boxes)
    + Copies({b \in BagToSet(raws) : b.memory = a}, raws)
    + Cardinality({h.refctr : h \in {x \in BagToSet(refs) : x.value = a}})
\* An allocation has at most one owner and is allocated while it has one: a
\* box given up by into_inner, into_raw, assume_init or a HeapRef given up by
\* try_unwrap leaves nothing behind that would release the allocation again.
SoleOwner == \A a \in Addr : Owners(a) <= 1 /\ (Owners(a) = 1 => mem[a].live)

\* C19: free is called at most once on each allocation and only on memory
\* that is allocated, and no allocation has a second owner left to release it.
C19_DeallocateOnce == ~corrupt /\ SoleOwner

\* ----------------------------------------------------------------- C20
\* C20: a HeapRef constructor that fails leaves everything as it was.  new
\* returns the value it was called with; the allocation it may have made for
\* the value is released again, so memory and tracer are as before.
\* new_from_heap returns the Heap it was given, which still owns its
\* allocation.  No record and no handle come into being.
C20_ConstructFailure ==
    [][/\ (ret'.op \in {"new", "new_from_heap"} /\ ret'.res = "err") =>
            /\ mem' = mem /\ tracer' = tracer /\ corrupt' = corrupt
            /\ UNCHANGED <<refs, weaks, boxes, raws, vals>>
            /\ ret'.h.refctr = Null
       /\ \A d \in Data :
            (ret'.op = "new" /\ ret'.res = "err" /\ New(d)) => ret'.val = Value(d)
       /\ (ret'.op = "new_from_heap" /\ ret'.res = "err") =>
            /\ BagIn(Heap(ret'.h.value, "T"), boxes')
            /\ mem'[ret'.h.value].live /\ mem'[ret'.h.value].tag = "val"]_vars

\* new failed while one box is allocated: the value came back, the box's
\* allocation is the only one and the tracer counts only it.
C20_Witness ==
    /\ ret.op = "new"
    /\ ret.res = "err"
    /\ ret.val.data \in Data
    /\ Cardinality({a \in Addr : mem[a].live}) = 1
    /\ \E b \in BagToSet(boxes) : Allocated(b.memory, "val")
    /\ refs = EmptyBag
    /\ tracer = SizeT

\* ----------------------------------------------------------------- C21
\* The handle dropped in this step is the last strong one of its record, and
\* the only weak handle of that record is owned by the value itself.
SelfObserverDrop ==
    /\ ret'.op = "drop_ref"
    /\ mem[ret'.h.refctr].strong = 1
    /\ mem[ret'.h.refctr].weak = 1
    /\ OwnedWeaks(ret'.h.value, ret'.h.refctr) = 1

\* C21: when the last HeapRef is dropped and the teardown of the value drops
\* the only weak handle of the same record, the record is released exactly
\* once (free is never called on it again, the tracer falls by sizeof(T) and
\* sizeof(record) once each), and the record is still allocated when the drop
\* reads its counts after the teardown of the value.
C21_SelfObserverReleasedOnce ==
    [][SelfObserverDrop =>
        LET h == ret'.h
            s1 == [Cur EXCEPT !.mem[h.refctr].strong = @ - 1]
            s2 == HeapDrop(s1, h.value, "T")
        IN  /\ s2.mem[h.refctr].live
            /\ ~corrupt'
            /\ ~mem'[h.refctr].live
            /\ tracer' = decrement_allocated(tracer, SizeT + OVERHEAD)]_vars

\* --------------------------------------- two cores, unsynchronised counting
\* `(*self.refctr).strong += 1` and its siblings are a load of the counter,
\* then a store of the loaded value plus or minus 1; nothing keeps the other
\* core from running between the two.  A step that touches a record that is
\* no longer allocated is a use after free (corrupt).
CreatesRef == {"clone", "upgrade"}
CreatesWeak == {"downgrade"}
Drops == {"drop_ref", "drop_weak"}
UsesRef == {"clone", "downgrade", "drop_ref"}
CountsStrong(op) == op \in {"clone", "upgrade", "drop_ref"}

Counter(m, r, op) == IF CountsStrong(op) THEN m[r].strong ELSE m[r].weak
Stored(m, r, op, v) ==
    IF CountsStrong(op)
    THEN [m EXCEPT ![r].strong = v]
    ELSE [m EXCEPT ![r].weak = v]

\* The cores that are inside an operation of kind ops on handle h.
Inside(ops, h) == {c \in Cores : ctx[c].pc # "idle" /\ ctx[c].op \in ops /\ ctx[c].h = h}

\* A handle can be used by reference while the caller has it, and be dropped
\* only when no core is using that copy by reference.  Handles are created
\* while the count they raise and the number of copies are within MaxCount.
MayStart(op, h) ==
    /\ IF op \in UsesRef THEN BagIn(h, refs) ELSE BagIn(h, weaks)
    /\ op = "drop_ref" =>
          CopiesIn(h, refs) > Cardinality(Inside({"clone", "downgrade"}, h))
    /\ op = "drop_weak" =>
          CopiesIn(h, weaks) > Cardinality(Inside({"upgrade"}, h))
    /\ op \in CreatesRef =>
          /\ mem[h.refctr].strong < MaxCount
          /\ CopiesIn(h, refs) + Cardinality(Inside(CreatesRef, h)) <= MaxCount
    /\ op \in CreatesWeak =>
          /\ mem[h.refctr].weak < MaxCount
          /\ CopiesIn(h, weaks) + Cardinality(Inside(CreatesWeak, h)) <= MaxCount

UseAfterFree ==
    /\ corrupt' = TRUE
    /\ UNCHANGED <<gen, ctx, mem, tracer, refs, weaks, boxes, raws, vals, ret>>

\* The rest of HeapRef::drop after the decrement.
HeapRefRelease(s, h, ub) ==
    LET s2 == IF s.mem[h.refctr].strong = 0
              THEN HeapDrop(s, h.value, "T")
              ELSE s
    IN  IF LastReference(s2, h, ub)
        THEN HeapDrop(s2, h.refctr, "refctr")
        ELSE s2

\* The rest of HeapRefWeak::drop after the decrement.
HeapRefWeakRelease(s, h) ==
    IF s.mem[h.refctr].strong = 0 /\ s.mem[h.refctr].weak = 0
    THEN HeapDrop(s, h.refctr, "refctr")
    ELSE s

\* The load of `+= 1` / `-= 1` in clone, downgrade and the two drops; a drop
\* owns the handle it was called on.
Load(c, op, h) ==
    /\ Running
    /\ ctx[c].pc = "idle" /\ ctx[c].ops < MaxOps
    /\ op \in (CreatesRef \cup CreatesWeak \cup Drops) \ {"upgrade"}
    /\ MayStart(op, h)
    /\ IF ~mem[h.refctr].live
       THEN UseAfterFree
       ELSE /\ ctx' = [ctx EXCEPT ![c] = [pc |-> "store", op |-> op, h |-> h,
                                          reg |-> Counter(mem, h.refctr, op),
                                          ops |-> ctx[c].ops + 1]]
            /\ refs' = (IF op = "drop_ref" THEN Remove(refs, h) ELSE refs)
            /\ weaks' = (IF op = "drop_weak" THEN Remove(weaks, h) ELSE weaks)
            /\ UNCHANGED <<gen, mem, tracer, corrupt, boxes, raws, vals, ret>>

\* `if self.strong() == 0 { return None }` of HeapRefWeak::upgrade
Check(c, w) ==
    /\ Running
    /\ ctx[c].pc = "idle" /\ ctx[c].ops < MaxOps
    /\ MayStart("upgrade", w)
    /\ IF ~mem[w.refctr].live
       THEN UseAfterFree
       ELSE IF Orphaned(mem, w)
       THEN /\ ret' = Ret("upgrade", "none", w, NoValue)
            /\ ctx' = [ctx EXCEPT ![c].ops = @ + 1]
            /\ UNCHANGED <<gen, mem, tracer, corrupt, refs, weaks, boxes, raws, vals>>
       ELSE /\ ctx' = [ctx EXCEPT ![c] = [pc |-> "load", op |-> "upgrade",
                                          h |-> w, reg |-> 0,
                                          ops |-> ctx[c].ops + 1]]
            /\ UNCHANGED <<gen, mem, tracer, corrupt, refs, weaks, boxes, raws, vals, ret>>

\* The load of `+= 1` in HeapRefWeak::upgrade, after the check.
LoadAfterCheck(c) ==
    /\ Running
    /\ ctx[c].pc = "load"
    /\ IF ~mem[ctx[c].h.refctr].live
       THEN UseAfterFree
       ELSE /\ ctx' = [ctx EXCEPT ![c].pc = "store",
                                  ![c].reg = Counter(mem, ctx[c].h.refctr, ctx[c].op)]
            /\ UNCHANGED <<gen, mem, tracer, corrupt, refs, weaks, boxes, raws, vals, ret>>

\* Mutant: the store adds to what the counter holds now, as an atomic would.
StoreValue_Atomic(m, c) ==
    (Counter(m, ctx[c].h.refctr, ctx[c].op)
        + (IF ctx[c].op \in Drops THEN 0 - 1 ELSE 1)) % UsizeMod

\* What the store of `+= 1` / `-= 1` writes: the loaded value plus or minus 1.
StoreValue(m, c) ==
    (ctx[c].reg + (IF ctx[c].op \in Drops THEN 0 - 1 ELSE 1)) % UsizeMod

\* The store of `+= 1` / `-= 1`; the creating operations return the new
\* handle, the drops go on to look at the counts.
Store(c) ==
    /\ Running
    /\ ctx[c].pc = "store"
    /\ LET op == ctx[c].op
           h == ctx[c].h
       IN  IF ~mem[h.refctr].live
           THEN UseAfterFree
           ELSE /\ mem' = Stored(mem, h.refctr, op, StoreValue(mem, c))
                /\ refs' = (IF op \in CreatesRef THEN Add(refs, h) ELSE refs)
                /\ weaks' = (IF op \in CreatesWeak THEN Add(weaks, h) ELSE weaks)
                /\ IF op \in Drops
                   THEN /\ ctx' = [ctx EXCEPT ![c].pc = "release"]
                        /\ ret' = ret
                   ELSE /\ ctx' = [ctx EXCEPT ![c] = Idle(ctx[c].ops)]
                        /\ ret' = Ret(op, "ok", h, NoValue)
                /\ UNCHANGED <<gen, tracer, corrupt, boxes, raws, vals>>

\* The two `if` of HeapRef::drop / the one of HeapRefWeak::drop.
Release(c) ==
    /\ Running
    /\ ctx[c].pc = "release"
    /\ LET op == ctx[c].op
           h == ctx[c].h
       IN  IF ~mem[h.refctr].live
           THEN UseAfterFree
           ELSE /\ IF op = "drop_ref"
                   THEN \E ub \in BOOLEAN : Commit(HeapRefRelease(Cur, h, ub))
                   ELSE Commit(HeapRefWeakRelease(Cur, h))
                /\ ctx' = [ctx EXCEPT ![c] = Idle(ctx[c].ops)]
                /\ ret' = Ret(op, "unit", h, NoValue)
                /\ UNCHANGED <<gen, refs, weaks, boxes, raws, vals>>

\* One HeapRef family as HeapRef::new leaves it, both cores idle.
InitRace ==
    \E p \in Addr, r \in Addr :
       /\ p # r
       /\ LET none == [mem |-> [a \in Addr |-> EmptyCell], tracer |-> 0,
                       corrupt |-> FALSE]
              s1 == HeapAlloc(none, p, ValCell(Value("Testolope")))
              s2 == HeapAlloc(s1, r, RefCounter(1, 0))
          IN  /\ mem = s2.mem /\ tracer = s2.tracer /\ corrupt = s2.corrupt
              /\ refs = SetToBag({[value |-> p, refctr |-> r]})
              /\ ret = Ret("new", "ok", [value |-> p, refctr |-> r], NoValue)
       /\ weaks = EmptyBag /\ boxes = EmptyBag /\ raws = EmptyBag
       /\ vals = EmptyBag
       /\ gen = Generator(<<>>)
       /\ ctx = [c \in Cores |-> Idle(0)]

NextRace ==
    \/ \E c \in Cores, op \in CreatesRef \cup CreatesWeak \cup Drops, h \in Handle :
          Load(c, op, h)
    \/ \E c \in Cores, w \in Handle : Check(c, w)
    \/ \E c \in Cores : LoadAfterCheck(c)
    \/ \E c \in Cores : Store(c)
    \/ \E c \in Cores : Release(c)

SpecRace == InitRace /\ [][NextRace]_vars

\* ----------------------------------------------------------------- C22
\* The cores that have taken a handle of record r to drop it and have not
\* stored the decrement yet: their handle still counts.
PendingDrops(r, op) ==
    Cardinality({c \in Cores : ctx[c].pc = "store" /\ ctx[c].op = op
                                  /\ ctx[c].h.refctr = r})
\* strong and weak of every allocated record equal the number of handles, and
\* a record that is not allocated has no handle.
RaceCounted ==
    \A r \in Addr :
        IF Allocated(r, "refctr")
        THEN /\ mem[r].strong = StrongHandles(r) + PendingDrops(r, "drop_ref")
             /\ mem[r].weak = WeakHandleCount(r) + PendingDrops(r, "drop_weak")
        ELSE /\ StrongHandles(r) + PendingDrops(r, "drop_ref") = 0
             /\ WeakHandleCount(r) + PendingDrops(r, "drop_weak") = 0
\* A core stores in this step, and what it loaded is no longer what the
\* counter holds: the update another core made in between is overwritten.
LostUpdate ==
    \E c \in Cores :
        /\ ctx[c].pc = "store"
        /\ ctx'[c].pc # "store"
        /\ ctx[c].reg # Counter(mem, ctx[c].h.refctr, ctx[c].op)

\* C22: with two cores running clone, drop, downgrade and upgrade as a load
\* and a later store of the plain counter, the counts stay equal to the number
\* of handles in every step but the store of a value loaded before the other
\* core's update, and every such store makes a count differ from the number
\* of handles; nothing in the code keeps that store from happening.
C22_LostUpdateBreaksCount ==
    [][RaceCounted => (RaceCounted' <=> ~LostUpdate)]_vars

\* Both cores are done, no use after free has happened yet, and the caller
\* still has a HeapRef whose value and record have been deallocated.
C22_Witness ==
    /\ ~corrupt
    /\ \A c \in Cores : ctx[c].pc = "idle"
    /\ \E h \in BagToSet(refs) : ~mem[h.value].live /\ ~mem[h.refctr].live
    /\ ~RaceCounted
====
